---- MODULE Spec2Model ----
(***************************************************************************)
(* Model of src/species_range_etl.py: the SpeciesPipeline run              *)
(* (setup, extract, transform, load) over a file system split into the     *)
(* category trees zipfiles, ascii, tif and shapes.                         *)
(*                                                                         *)
(* File and species names are sequences of one-character strings, so that  *)
(* startswith, endswith, re.sub, split and slicing are computed the way    *)
(* the code computes them.  Raster cell values are percents (0.25 is 25).  *)
(***************************************************************************)
EXTENDS Integers, Sequences, FiniteSets, Bags, TLC

\* Number of times the program is started against the same data directory.
MaxRuns == 2

-----------------------------------------------------------------------------
(* Strings                                                                 *)

\* Character order of a directory listing (names are listed in name order).
Alphabet ==
    << "-", ".", "/", "0", "1", "2", "3", "4", "5", "6", "7", "8", "9", "_",
       "a", "b", "c", "d", "e", "f", "g", "h", "i", "j", "k", "l", "m", "n",
       "o", "p", "q", "r", "s", "t", "u", "v", "w", "x", "y", "z" >>

Digits == << "0", "1", "2", "3", "4", "5", "6", "7", "8", "9" >>

\* The one-character pattern "." of a regular expression.
AnyChar == "ANY"

CharCode(c) == CHOOSE i \in 1..Len(Alphabet) : Alphabet[i] = c

\* a < b in lexicographic order
RECURSIVE StrLess(_, _)
StrLess(a, b) ==
    IF b = << >> THEN FALSE
    ELSE IF a = << >> THEN TRUE
    ELSE IF Head(a) = Head(b) THEN StrLess(Tail(a), Tail(b))
    ELSE CharCode(Head(a)) < CharCode(Head(b))

\* str.startswith(p)
StartsWith(s, p) == Len(s) >= Len(p) /\ SubSeq(s, 1, Len(p)) = p

\* str.endswith(p)
EndsWith(s, p) == Len(s) >= Len(p) /\ SubSeq(s, Len(s) - Len(p) + 1, Len(s)) = p

\* s[:-n]
DropLast(s, n) == SubSeq(s, 1, Len(s) - n)

\* s[1:]
DropFirst(s) == IF s = << >> THEN << >> ELSE Tail(s)

\* the pattern pat matches s at position i
MatchAt(pat, s, i) ==
    /\ i + Len(pat) - 1 <= Len(s)
    /\ \A k \in 1..Len(pat) : pat[k] = AnyChar \/ pat[k] = s[i + k - 1]

\* re.sub(pat, rep, s) for a pattern of literal characters and "."
RECURSIVE ReSubFrom(_, _, _, _)
ReSubFrom(pat, rep, s, i) ==
    IF i > Len(s) THEN << >>
    ELSE IF MatchAt(pat, s, i) THEN rep \o ReSubFrom(pat, rep, s, i + Len(pat))
    ELSE << s[i] >> \o ReSubFrom(pat, rep, s, i + 1)

ReSub(pat, rep, s) == ReSubFrom(pat, rep, s, 1)

\* s.split(sep) for a one-character separator: a sequence of tokens
RECURSIVE SplitFrom(_, _, _, _)
SplitFrom(s, sep, i, cur) ==
    IF i > Len(s) THEN << cur >>
    ELSE IF s[i] = sep THEN << cur >> \o SplitFrom(s, sep, i + 1, << >>)
    ELSE SplitFrom(s, sep, i + 1, Append(cur, s[i]))

Split(s, sep) == SplitFrom(s, sep, 1, << >>)

\* str(n) for n >= 0
RECURSIVE IntToStr(_)
IntToStr(n) ==
    IF n < 10 THEN << Digits[n + 1] >>
    ELSE IntToStr(n \div 10) \o << Digits[(n % 10) + 1] >>

\* the names of a set in listing order
RECURSIVE SortNames(_)
SortNames(S) ==
    IF S = {} THEN << >>
    ELSE LET p == CHOOSE x \in S : TRUE
             lo == { y \in S \ {p} : StrLess(y, p) }
             hi == S \ (lo \cup {p})
         IN  SortNames(lo) \o << p >> \o SortNames(hi)

\* String literals of the program
s_txt     == << "t", "x", "t" >>
s_asc     == << "a", "s", "c" >>
s_tif     == << "t", "i", "f" >>
dot_tif   == << ".", "t", "i", "f" >>
dot_shp   == << ".", "s", "h", "p" >>
re_dottif == << AnyChar, "t", "i", "f" >>
s_clean   == << "c", "l", "e", "a", "n", "_" >>
s_current == << "c", "u", "r", "r", "e", "n", "t" >>
s_vtech   == << "v", "t", "e", "c", "h" >>
s_2020    == << "2", "0", "2", "0" >>
us        == << "_" >>

-----------------------------------------------------------------------------
(* Inputs: the remote catalog, the species pages and their archives         *)

\* Species slugs of the catalog
SlugA == << "a", "b" >>
SlugB == << "a", "b", "-", "x" >>
Slugs == { SlugA, SlugB }

\* Raw grid names packed in the archives
n_current_txt == s_current \o << "." >> \o s_txt
n_current_b_txt == s_current \o << "_", "b", "." >> \o s_txt
n_vtech_txt   == s_vtech \o us \o s_current \o << "." >> \o s_txt
n_cmip_txt    ==
    << "c", "m", "i", "p", "_", "r", "c", "p", "4", "5", "_",
       "y", "2", "0", "7", "0", "." >> \o s_txt

n_cmip_v2_txt ==
    << "c", "m", "i", "p", "_", "r", "c", "p", "4", "5", "_",
       "y", "2", "0", "7", "0", "_", "v", "2", "." >> \o s_txt

n_current_a_txt == s_current \o << "_", "a", "." >> \o s_txt
n_current_j_txt == s_current \o << "_", "j", "." >> \o s_txt
n_current_z_txt == s_current \o << "_", "z", "." >> \o s_txt

\* Grids: cell values in percent, one row of cells
GridA == << 80, 10, 30 >>
GridB == << 30, 60, 80 >>
GridC == << 60, 10, 30 >>
GridD == << 25, 50, 75 >>

\* The content of an archive entry that is no grid
Junk == << >>

\* The value of a cell without data
NoData == -1

Scenario(name, kind, entries) == [ name |-> name, kind |-> kind, entries |-> entries ]

Entry(name, data) == [ name |-> name, data |-> data ]

\* Pages of the species index: a sequence of scenario groups.  kind is
\* "ok" (a well-formed archive), "bad" (a malformed archive: BadZipFile is
\* raised once its entries, if any, were extracted) or "unavailable".
PageNone == << >>

PageExtra ==
    << Scenario("current", "ok",
                << Entry(n_current_txt, GridA), Entry(n_current_b_txt, GridB) >>),
       Scenario("rcp45", "ok", << Entry(n_cmip_v2_txt, GridB) >>) >>

PageMixed ==
    << Scenario("current", "ok", << Entry(n_current_txt, GridA) >>),
       Scenario("rcp45", "bad", << >>),
       Scenario("rcp85", "ok", << Entry(n_cmip_txt, GridB) >>) >>

PageUnavailable ==
    << Scenario("rcp45", "unavailable", << >>),
       Scenario("current", "ok", << Entry(n_vtech_txt, GridC) >>) >>

\* an archive with an entry that is no grid, listed between two grids
PageJunk ==
    << Scenario("current", "ok",
                << Entry(n_current_a_txt, GridC), Entry(n_current_j_txt, Junk),
                   Entry(n_current_z_txt, GridA) >>) >>

\* an archive whose entries are named after the species: one below a
\* folder of that name, one with the name as a prefix of the file name
PagePrefixed(species) ==
    << Scenario("current", "ok",
                << Entry(species \o << "/" >> \o n_current_txt, GridD),
                   Entry(species \o us \o n_current_txt, GridA) >>) >>

PageOptions == { PageNone, PageExtra, PageMixed, PageUnavailable, PageJunk }

\* the pages a species may have
PagesOf(species) == PageOptions \cup { PagePrefixed(species) }

PageChoices ==
    { f \in [ Slugs -> UNION { PagesOf(s) : s \in Slugs } ] :
        \A s \in Slugs : f[s] \in PagesOf(s) }

\* Answers of the catalog resource: rows of tab-separated fields
Row4(slug) == << slug, "name", "scientific", "source" >>

Response(reachable, status, rows) ==
    [ reachable |-> reachable, status |-> status, rows |-> rows ]

\* no answer yet
NoResponse == Response(FALSE, -1, << >>)

CatalogResponses ==
    { Response(FALSE, 0, << >>),
      Response(TRUE, 200, << Row4(SlugA), Row4(SlugB) >>),
      Response(TRUE, 200, << Row4(SlugA), << SlugB, "name" >> >>),
      Response(TRUE, 200, << Row4(SlugA), Row4(SlugB) \o << "extra" >> >>),
      Response(TRUE, 200, << Row4(SlugA) \o << "extra" >>, Row4(SlugB) \o << "extra" >> >>),
      Response(TRUE, 404, << << << "h", "t", "m", "l" >> >> >>),
      Response(TRUE, 503, << Row4(SlugA), Row4(SlugB) >>) }

-----------------------------------------------------------------------------
(* Catalog Resolver                                                        *)

\* pd.read_csv(raw_io, sep="\t", header=None): blank lines are skipped, the
\* first row sets the number of columns, a longer row is an error and a
\* shorter row is filled with missing values.
ReadCsv(rows) ==
    LET body == SelectSeq(rows, LAMBDA r : r # << >>)
    IN  IF body = << >> THEN [ ok |-> FALSE, ncols |-> 0, rows |-> << >> ]
        ELSE LET n == Len(body[1])
             IN  IF \E i \in 1..Len(body) : Len(body[i]) > n
                 THEN [ ok |-> FALSE, ncols |-> n, rows |-> << >> ]
                 ELSE [ ok |-> TRUE, ncols |-> n, rows |-> body ]

\* _get_species_list: requests.get raises when the resource is unreachable;
\* the status of the answer is not looked at; naming the 4 columns raises
\* unless the frame has 4 columns.
GetSpeciesListOf(resp) ==
    IF ~resp.reachable THEN [ ok |-> FALSE, list |-> << >> ]
    ELSE LET df == ReadCsv(resp.rows)
         IN  IF ~df.ok \/ df.ncols # 4 THEN [ ok |-> FALSE, list |-> << >> ]
             ELSE [ ok |-> TRUE,
                    list |-> [ i \in 1..Len(df.rows) |-> df.rows[i][1] ] ]

-----------------------------------------------------------------------------
(* Aggregator: metadata from the layer name                                *)

\* Variant: the year keeps its leading character.
ParseLayerName_KeepsYearPrefix(s_file) ==
    LET details == Split(DropLast(s_file, 4), "_")
        failed  == [ ok |-> FALSE, threshold |-> << >>, source |-> << >>,
                     scenario |-> << >>, year |-> << >> ]
    IN  IF Len(details) < 2 THEN failed
        ELSE IF details[2] = s_current
        THEN [ ok |-> TRUE, threshold |-> details[1], source |-> s_vtech,
               scenario |-> s_current, year |-> s_2020 ]
        ELSE IF Len(details) < 4 THEN failed
        ELSE [ ok |-> TRUE, threshold |-> details[1], source |-> details[2],
               scenario |-> details[3], year |-> details[4] ]

\* Variant: the "current" form is taken only for a name of two tokens.
ParseLayerName_CurrentOnlyAlone(s_file) ==
    LET details == Split(DropLast(s_file, 4), "_")
        failed  == [ ok |-> FALSE, threshold |-> << >>, source |-> << >>,
                     scenario |-> << >>, year |-> << >> ]
    IN  IF Len(details) < 2 THEN failed
        ELSE IF details[2] = s_current /\ Len(details) = 2
        THEN [ ok |-> TRUE, threshold |-> details[1], source |-> s_vtech,
               scenario |-> s_current, year |-> s_2020 ]
        ELSE IF Len(details) < 4 THEN failed
        ELSE [ ok |-> TRUE, threshold |-> details[1], source |-> details[2],
               scenario |-> details[3], year |-> DropFirst(details[4]) ]

\* _load_species_data_helper, lines 185-194, for one layer name.  An index
\* past the end of details raises IndexError (ok = FALSE).
ParseLayerName(s_file) ==
    LET details == Split(DropLast(s_file, 4), "_")
        failed  == [ ok |-> FALSE, threshold |-> << >>, source |-> << >>,
                     scenario |-> << >>, year |-> << >> ]
    IN  IF Len(details) < 2 THEN failed
        ELSE IF details[2] = s_current
        THEN [ ok |-> TRUE, threshold |-> details[1], source |-> s_vtech,
               scenario |-> s_current, year |-> s_2020 ]
        ELSE IF Len(details) < 4 THEN failed
        ELSE [ ok |-> TRUE, threshold |-> details[1], source |-> details[2],
               scenario |-> details[3], year |-> DropFirst(details[4]) ]

-----------------------------------------------------------------------------
(* The file system and the log                                             *)

\* A directory tree is a function from paths to file contents; a path is
\* << species, name >> (a file of the species' folder) or << name >> (a
\* file of the category root).
NoFiles == << >>

Put(files, path, data) ==
    [ q \in (DOMAIN files) \cup { path } |-> IF q = path THEN data ELSE files[q] ]

Remove(files, path) == [ q \in (DOMAIN files) \ { path } |-> files[q] ]

\* os.listdir of the species' folder of a tree, as a set of names
NamesIn(files, species) ==
    { p[2] : p \in { q \in DOMAIN files : Len(q) = 2 /\ q[1] = species } }

\* os.listdir of the species' folder, in listing order
ListDir(files, species) == SortNames(NamesIn(files, species))

\* one record of the log file
LogEntry(msg, species, arg) == [ msg |-> msg, species |-> species, arg |-> arg ]

LogAdd(lg, e) == lg (+) SetToBag({ e })

folder_categories == << "tif", "shapes", "zipfiles", "ascii" >>

-----------------------------------------------------------------------------
(* _generate_species_folders                                               *)

\* a variant of the loop that lets FileExistsError end the task
RECURSIVE MakeFolders_ExistingRaises(_, _, _)
MakeFolders_ExistingRaises(st, species, i) ==
    IF i > Len(folder_categories) THEN st
    ELSE LET d == << folder_categories[i], species >>
         IN  IF d \in st.dirs THEN [ st EXCEPT !.err = TRUE ]
             ELSE MakeFolders_ExistingRaises([ st EXCEPT !.dirs = @ \cup { d } ],
                                             species, i + 1)

\* lines 53-57
RECURSIVE MakeFolders(_, _, _)
MakeFolders(st, species, i) ==
    IF i > Len(folder_categories) THEN st
    ELSE LET category == folder_categories[i]
             d == << category, species >>
         IN  IF d \in st.dirs
             THEN MakeFolders([ st EXCEPT !.log =
                      LogAdd(@, LogEntry("folder already exists", species, category)) ],
                      species, i + 1)
             ELSE MakeFolders([ st EXCEPT !.dirs = @ \cup { d } ], species, i + 1)

-----------------------------------------------------------------------------
(* Archive Fetcher: _download_species_data_helper                          *)

\* lines 160-165: where an archive entry is extracted to, below the ascii root
EntryPath(species, name) ==
    IF StartsWith(name, species) THEN Split(name, "/")
    ELSE << species >> \o Split(name, "/")

RECURSIVE ExtractEntries(_, _, _, _)
ExtractEntries(st, species, entries, i) ==
    IF i > Len(entries) THEN st
    ELSE LET path == EntryPath(species, entries[i].name)
             made == IF Len(path) = 2 THEN { << "ascii", path[1] >> } ELSE {}
         IN  ExtractEntries(
                 [ st EXCEPT !.ascii = Put(@, path, entries[i].data),
                             !.dirs = @ \cup made ],
                 species, entries, i + 1)

\* Variant: BadZipFile is not caught and ends the task.
OnBadZipFile_Raises(st, species, scenario) == [ st EXCEPT !.err = TRUE ]

\* lines 166-167: the handler of BadZipFile
OnBadZipFile(st, species, scenario) ==
    [ st EXCEPT !.log = LogAdd(@, LogEntry("bad zip file", species, scenario.name)) ]

\* lines 143-167: one iteration of the loop over the scenario groups
ScenarioStep(st, species, scenario) ==
    IF st.err THEN st
    ELSE IF scenario.kind = "unavailable"
    THEN [ st EXCEPT !.log =
             LogAdd(@, LogEntry("image not available", species, scenario.name)) ]
    ELSE IF << "zipfiles", species >> \notin st.dirs
    THEN [ st EXCEPT !.err = TRUE ]
    ELSE LET saved == [ st EXCEPT !.zips = @ \cup { << species, scenario.name >> } ]
             extracted == ExtractEntries(saved, species, scenario.entries, 1)
         IN  IF scenario.kind = "bad"
             THEN OnBadZipFile(extracted, species, scenario)
             ELSE extracted

RECURSIVE DownloadLoop(_, _, _, _)
DownloadLoop(st, species, page, i) ==
    IF i > Len(page) THEN st
    ELSE DownloadLoop(ScenarioStep(st, species, page[i]), species, page, i + 1)

\* lines 168-169: os.rmdir raises unless the directory exists and is empty
RemoveZipDir(st, species) ==
    IF st.err THEN st
    ELSE IF << "zipfiles", species >> \in st.dirs
            /\ ~ \E z \in st.zips : z[1] = species
    THEN [ st EXCEPT !.dirs = @ \ { << "zipfiles", species >> } ]
    ELSE [ st EXCEPT !.err = TRUE ]

DownloadSpeciesData(st, species, page) ==
    RemoveZipDir(DownloadLoop(st, species, page, 1), species)

-----------------------------------------------------------------------------
(* Grid Converter                                                          *)

\* _convert_to_ASCII_helper, lines 64-74, over the listing taken at line 64.
\* os.rename onto another existing file replaces it on POSIX and raises
\* FileExistsError on Windows.
RECURSIVE RenameLoop(_, _, _, _, _)
RenameLoop(st, species, names, i, posix) ==
    IF i > Len(names) \/ st.err THEN st
    ELSE LET ascii_file == names[i]
             fixed == ReSub(s_txt, s_asc, ascii_file)
             src == << species, ascii_file >>
             dst == << species, fixed >>
         IN  IF EndsWith(ascii_file, s_asc)
             THEN RenameLoop([ st EXCEPT !.log =
                      LogAdd(@, LogEntry("ascii file already exists", species, ascii_file)) ],
                      species, names, i + 1, posix)
             ELSE IF src \notin DOMAIN st.ascii
             THEN [ st EXCEPT !.err = TRUE ]
             ELSE IF fixed = ascii_file
             THEN RenameLoop(st, species, names, i + 1, posix)
             ELSE IF dst \in DOMAIN st.ascii /\ ~posix
             THEN [ st EXCEPT !.err = TRUE ]
             ELSE RenameLoop(
                      [ st EXCEPT !.ascii = Remove(Put(@, dst, st.ascii[src]), src) ],
                      species, names, i + 1, posix)

ConvertToASCII(st, species, posix) ==
    IF << "ascii", species >> \notin st.dirs THEN [ st EXCEPT !.err = TRUE ]
    ELSE RenameLoop(st, species, ListDir(st.ascii, species), 1, posix)

\* a raster file: its cells and the run that wrote it
Raster(data, now) == [ data |-> data, mtime |-> now ]

\* _convert_to_tif_helper, lines 82-92: gdal cannot open a file that is no
\* grid, and CreateCopy raises without a dataset.
RECURSIVE CreateCopyLoop(_, _, _, _, _)
CreateCopyLoop(st, species, names, i, now) ==
    IF i > Len(names) \/ st.err THEN st
    ELSE LET a_file == names[i]
             t_file == ReSub(s_asc, s_tif, a_file)
             ds_in == st.ascii[<< species, a_file >>]
         IN  IF ds_in = Junk \/ << "tif", species >> \notin st.dirs
             THEN [ st EXCEPT !.err = TRUE ]
             ELSE CreateCopyLoop(
                      [ st EXCEPT !.tif = Put(@, << species, t_file >>, Raster(ds_in, now)) ],
                      species, names, i + 1, now)

ConvertToTif(st, species, now) ==
    IF << "ascii", species >> \notin st.dirs THEN [ st EXCEPT !.err = TRUE ]
    ELSE CreateCopyLoop(st, species, ListDir(st.ascii, species), 1, now)

-----------------------------------------------------------------------------
(* Threshold Polygonizer: _convert_to_shape_helper                         *)

\* line 101, in percent
cut_off_thresholds == << 25, 50, 75 >>

\* a variant of Con that leaves out the cells equal to the threshold
Con_StrictlyAbove(data, threshold) ==
    [ i \in 1..Len(data) |->
        IF data[i] # NoData /\ data[i] > threshold THEN 0 ELSE NoData ]

\* line 120: arcpy.sa.Con(raster_in >= threshold, 0): 0 where the cell
\* passes, no data elsewhere
Con(data, threshold) ==
    [ i \in 1..Len(data) |->
        IF data[i] # NoData /\ data[i] >= threshold THEN 0 ELSE NoData ]

\* the cells of a raster that hold data
DataCells(data) == { i \in 1..Len(data) : data[i] # NoData }

\* line 123: RasterToPolygon gives one feature per connected region of
\* cells of equal value; a feature is the set of its cells
Regions(data) ==
    LET cells == DataCells(data)
        starts == { i \in cells : (i - 1) \notin cells }
    IN  { { j \in cells : j >= a /\ \A k \in a..j : k \in cells } : a \in starts }

\* lines 109-123 for one raster and one threshold.  emptyRaises: whether
\* RasterToPolygon raises for a raster without any data cell (it does in
\* some releases and writes a layer without features in others).
ThresholdStep(st, species, tif_raster, threshold, emptyRaises, now) ==
    IF st.err THEN st
    ELSE LET shape_file == ReSub(re_dottif, dot_shp, tif_raster)
             raster_out == s_clean \o IntToStr(threshold) \o us \o tif_raster
             s_data == IntToStr(threshold) \o us \o shape_file
             outCon == Con(st.tif[<< species, tif_raster >>].data, threshold)
             saved == [ st EXCEPT !.tif =
                          Put(@, << species, raster_out >>, Raster(outCon, now)) ]
         IN  IF << species, s_data >> \in DOMAIN st.shapes THEN st
             ELSE IF DataCells(outCon) = {} /\ emptyRaises
             THEN [ saved EXCEPT !.err = TRUE ]
             ELSE [ saved EXCEPT !.shapes =
                      Put(@, << species, s_data >>, Regions(outCon)) ]

RECURSIVE ShapeLoop(_, _, _, _, _, _)
ShapeLoop(st, species, rasters, u, emptyRaises, now) ==
    IF u >= Len(rasters) * Len(cut_off_thresholds) \/ st.err THEN st
    ELSE ShapeLoop(
             ThresholdStep(st, species,
                 rasters[(u \div Len(cut_off_thresholds)) + 1],
                 cut_off_thresholds[(u % Len(cut_off_thresholds)) + 1],
                 emptyRaises, now),
             species, rasters, u + 1, emptyRaises, now)

\* line 103: the rasters listed when the helper starts
RastersOf(tif, species) ==
    LET found == { n \in NamesIn(tif, species) : EndsWith(n, dot_tif) }
    IN  SortNames(found)

ConvertToShape(st, species, emptyRaises, now) ==
    IF << "tif", species >> \notin st.dirs THEN [ st EXCEPT !.err = TRUE ]
    ELSE ShapeLoop(st, species, RastersOf(st.tif, species), 0, emptyRaises, now)

-----------------------------------------------------------------------------
(* Aggregator: _load_species_data_helper and _load_species_data            *)

\* a variant without the dissolve: a row per feature
RECURSIVE RowPerFeature(_, _)
RowPerFeature(row, features) ==
    IF features = {} THEN << >>
    ELSE LET f == CHOOSE x \in features : TRUE
         IN  << [ row EXCEPT !.geometry = f ] >> \o RowPerFeature(row, features \ { f })

LayerRows_Undissolved(species, s_file, features) ==
    LET d == ParseLayerName(s_file)
    IN  RowPerFeature([ species |-> species, threshold |-> d.threshold,
                        source |-> d.source, scenario |-> d.scenario,
                        year |-> d.year, geometry |-> {} ], features)

\* lines 195-202 for one layer: the features get the attributes and are
\* dissolved by species; a layer without features gives no row
LayerRows(species, s_file, features) ==
    LET d == ParseLayerName(s_file)
    IN  IF features = {} THEN << >>
        ELSE << [ species |-> species, threshold |-> d.threshold,
                  source |-> d.source, scenario |-> d.scenario,
                  year |-> d.year, geometry |-> UNION features ] >>

RECURSIVE LayerLoop(_, _, _, _)
LayerLoop(shapes, species, names, i) ==
    IF i > Len(names) THEN [ status |-> "rows", rows |-> << >> ]
    ELSE IF ~ParseLayerName(names[i]).ok THEN [ status |-> "error", rows |-> << >> ]
    ELSE LET rest == LayerLoop(shapes, species, names, i + 1)
         IN  IF rest.status = "error" THEN rest
             ELSE [ status |-> "rows",
                    rows |-> LayerRows(species, names[i], shapes[<< species, names[i] >>])
                             \o rest.rows ]

\* lines 175-207: "none" is the None returned for a species without layers
LoadSpeciesDataOf(dirs, shapes, species) ==
    LET species_shapes ==
            SortNames({ n \in NamesIn(shapes, species) : EndsWith(n, dot_shp) })
    IN  IF << "shapes", species >> \notin dirs THEN [ status |-> "error", rows |-> << >> ]
        ELSE IF Len(species_shapes) = 0 THEN [ status |-> "none", rows |-> << >> ]
        ELSE LayerLoop(shapes, species, species_shapes, 1)

\* pd.concat over the results of the species, in the order of the list
RECURSIVE ConcatRows(_, _, _)
ConcatRows(res, list, i) ==
    IF i > Len(list) THEN << >>
    ELSE res[list[i]].rows \o ConcatRows(res, list, i + 1)

-----------------------------------------------------------------------------
(* State                                                                   *)

VARIABLES
    run,          \* the number of this start of the program
    pc,           \* where the run is: "start", a stage, "done" or "aborted"
    task,         \* per species, its task of the stage: "idle", "pending", "ok", "error"
    species_list, \* self.species_list
    catalog,      \* the answer of the catalog resource, while setup runs
    pages,        \* per species, its page of the index
    env,          \* the platform: os.rename replaces (posix), RasterToPolygon
                  \* raises for a raster without data cells (emptyRaises)
    dirs,         \* the directories: << category, species >>
    zipFiles,     \* the saved archives: << species, scenario name >>
    asciiFiles,   \* the grids below the ascii root
    tifFiles,     \* the rasters below the tif root
    shapeFiles,   \* the polygon layers below the shapes root
    log,          \* the log file, a bag of entries
    result,       \* per species, what _load_species_data_helper returned
    table,        \* the rows of the destination table
    written,      \* how many times the destination table was written
    failed,       \* the tasks that ended with an error: << run, stage, species >>
    shapeDone     \* the species whose polygonization task ended without error

vars ==
    << run, pc, task, species_list, catalog, pages, env, dirs, zipFiles, asciiFiles,
       tifFiles, shapeFiles, log, result, table, written, failed, shapeDone >>

\* the stages of a run in order (lines 278-281)
Stages == << "folders", "extract", "ascii", "tif", "shape", "load" >>

\* the stages run on a thread pool (lines 241, 249, 257, 260); the other
\* two run on a process pool (lines 263, 214)
ThreadStages == { "folders", "extract", "ascii", "tif" }

InList(species) == \E i \in 1..Len(species_list) : species_list[i] = species

\* a variant of the barrier that waits for one task only
AllTasksDone_AnyDone == \E s \in Slugs : task[s] # "pending"

\* leaving the with block of a pool waits for every task (lines 241, 249,
\* 257, 260, 263, 214)
AllTasksDone == \A s \in Slugs : task[s] # "pending"

Disk ==
    [ dirs |-> dirs, zips |-> zipFiles, ascii |-> asciiFiles, tif |-> tifFiles,
      shapes |-> shapeFiles, log |-> log, err |-> FALSE ]

\* the task of a species ends: the file system and the log are what the
\* helper left, also when it raised
Finish(st, species) ==
    /\ dirs' = st.dirs
    /\ zipFiles' = st.zips
    /\ asciiFiles' = st.ascii
    /\ tifFiles' = st.tif
    /\ shapeFiles' = st.shapes
    /\ log' = st.log
    /\ task' = [ task EXCEPT ![species] = IF st.err THEN "error" ELSE "ok" ]
    /\ failed' = IF st.err THEN failed \cup { << run, pc, species >> } ELSE failed

NoResult == [ status |-> "pending", rows |-> << >> ]

Init ==
    /\ run = 1
    /\ pc = "start"
    /\ task = [ s \in Slugs |-> "idle" ]
    /\ species_list = << >>
    /\ catalog = NoResponse
    /\ pages \in PageChoices
    /\ env \in [ posix : BOOLEAN, emptyRaises : BOOLEAN ]
    /\ dirs = {}
    /\ zipFiles = {}
    /\ asciiFiles = NoFiles
    /\ tifFiles = NoFiles
    /\ shapeFiles = NoFiles
    /\ log = EmptyBag
    /\ result = [ s \in Slugs |-> NoResult ]
    /\ table = << >>
    /\ written = 0
    /\ failed = {}
    /\ shapeDone = {}

-----------------------------------------------------------------------------
(* Actions                                                                 *)

\* setup, lines 238-241: the catalog is fetched; an exception of
\* _get_species_list ends the run
GetSpeciesList ==
    /\ pc = "start"
    /\ \E resp \in CatalogResponses :
        LET got == GetSpeciesListOf(resp)
        IN  /\ catalog' = resp
            /\ species_list' = got.list
            /\ pc' = IF got.ok THEN "folders" ELSE "aborted"
            /\ task' = [ s \in Slugs |->
                           IF got.ok /\ \E i \in 1..Len(got.list) : got.list[i] = s
                           THEN "pending" ELSE "idle" ]
    /\ UNCHANGED << run, pages, env, dirs, zipFiles, asciiFiles, tifFiles, shapeFiles,
                    log, result, table, written, failed, shapeDone >>

GenerateSpeciesFolders(species) ==
    /\ pc = "folders"
    /\ task[species] = "pending"
    /\ Finish(MakeFolders(Disk, species, 1), species)
    /\ UNCHANGED << run, pc, species_list, catalog, pages, env, result, table, written,
                    shapeDone >>

DownloadSpeciesDataHelper(species) ==
    /\ pc = "extract"
    /\ task[species] = "pending"
    /\ Finish(DownloadSpeciesData(Disk, species, pages[species]), species)
    /\ UNCHANGED << run, pc, species_list, catalog, pages, env, result, table, written,
                    shapeDone >>

ConvertToASCIIHelper(species) ==
    /\ pc = "ascii"
    /\ task[species] = "pending"
    /\ Finish(ConvertToASCII(Disk, species, env.posix), species)
    /\ UNCHANGED << run, pc, species_list, catalog, pages, env, result, table, written,
                    shapeDone >>

ConvertToTifHelper(species) ==
    /\ pc = "tif"
    /\ task[species] = "pending"
    /\ Finish(ConvertToTif(Disk, species, run), species)
    /\ UNCHANGED << run, pc, species_list, catalog, pages, env, result, table, written,
                    shapeDone >>

ConvertToShapeHelper(species) ==
    /\ pc = "shape"
    /\ task[species] = "pending"
    /\ LET st == ConvertToShape(Disk, species, env.emptyRaises, run)
       IN  /\ Finish(st, species)
           /\ shapeDone' = IF st.err THEN shapeDone ELSE shapeDone \cup { species }
    /\ UNCHANGED << run, pc, species_list, catalog, pages, env, result, table, written >>

LoadSpeciesDataHelper(species) ==
    /\ pc = "load"
    /\ task[species] = "pending"
    /\ LET r == LoadSpeciesDataOf(dirs, shapeFiles, species)
       IN  /\ result' = [ result EXCEPT ![species] = r ]
           /\ task' = [ task EXCEPT ![species] =
                          IF r.status = "error" THEN "error" ELSE "ok" ]
           /\ failed' = IF r.status = "error"
                        THEN failed \cup { << run, pc, species >> } ELSE failed
           /\ log' = IF r.status = "none"
                     THEN LogAdd(log, LogEntry("no shape files", species, "shapes"))
                     ELSE log
    /\ UNCHANGED << run, pc, species_list, catalog, pages, env, dirs, zipFiles, asciiFiles,
                    tifFiles, shapeFiles, table, written, shapeDone >>

\* The pool of a stage is left once all its tasks ended, and the next stage
\* starts.  A thread pool's map is never read, so what a task raised is
\* dropped (lines 242, 250, 258, 261); the process pool's map raises what a
\* task raised (line 264), which ends the run.
NextStageOf(stage) == Stages[(CHOOSE i \in 1..Len(Stages) : Stages[i] = stage) + 1]

StageDone ==
    /\ pc \in ThreadStages \cup { "shape" }
    /\ AllTasksDone
    /\ pc' = IF pc = "shape" /\ \E s \in Slugs : task[s] = "error"
             THEN "aborted" ELSE NextStageOf(pc)
    /\ task' = IF pc' = "aborted" THEN task
               ELSE [ s \in Slugs |-> IF InList(s) THEN "pending" ELSE "idle" ]
    /\ catalog' = NoResponse
    /\ UNCHANGED << run, species_list, pages, env, dirs, zipFiles, asciiFiles, tifFiles,
                    shapeFiles, log, result, table, written, failed, shapeDone >>

\* _load_species_data, lines 215-231: the map raises what a helper raised,
\* pd.concat raises on an empty list, to_postgis replaces the table
LoadSpeciesData ==
    /\ pc = "load"
    /\ AllTasksDone
    /\ LET kept == SelectSeq(species_list, LAMBDA s : result[s].status = "rows")
       IN  IF (\E s \in Slugs : task[s] = "error") \/ kept = << >>
           THEN pc' = "aborted" /\ UNCHANGED << table, written >>
           ELSE /\ pc' = "done"
                /\ table' = ConcatRows(result, kept, 1)
                /\ written' = written + 1
    /\ UNCHANGED << run, task, species_list, catalog, pages, env, dirs, zipFiles,
                    asciiFiles, tifFiles, shapeFiles, log, result, failed, shapeDone >>

\* the program is started again on the same data directory (lines 274-281)
Rerun ==
    /\ pc \in { "done", "aborted" }
    /\ run < MaxRuns
    /\ run' = run + 1
    /\ pc' = "start"
    /\ task' = [ s \in Slugs |-> "idle" ]
    /\ species_list' = << >>
    /\ catalog' = NoResponse
    /\ result' = [ s \in Slugs |-> NoResult ]
    /\ UNCHANGED << pages, env, dirs, zipFiles, asciiFiles, tifFiles, shapeFiles, log,
                    table, written, failed, shapeDone >>

Next ==
    \/ GetSpeciesList
    \/ \E s \in Slugs : GenerateSpeciesFolders(s)
    \/ \E s \in Slugs : DownloadSpeciesDataHelper(s)
    \/ \E s \in Slugs : ConvertToASCIIHelper(s)
    \/ \E s \in Slugs : ConvertToTifHelper(s)
    \/ \E s \in Slugs : ConvertToShapeHelper(s)
    \/ \E s \in Slugs : LoadSpeciesDataHelper(s)
    \/ StageDone
    \/ LoadSpeciesData
    \/ Rerun

Spec == Init /\ [][Next]_vars

-----------------------------------------------------------------------------
(* Properties                                                              *)

\* the polygon layers of a species
LayersOf(species) == { n \in NamesIn(shapeFiles, species) : EndsWith(n, dot_shp) }

\* the tokens of a layer name
TokensOf(s_file) == Split(DropLast(s_file, 4), "_")

\* the helper of the species has returned or raised in this run
Loaded(species) == result[species].status # "pending"

HasRow(species, s_file, threshold, source, scenario, year) ==
    \E i \in 1..Len(result[species].rows) :
        result[species].rows[i] =
            [ species |-> species, threshold |-> threshold, source |-> source,
              scenario |-> scenario, year |-> year,
              geometry |-> UNION shapeFiles[<< species, s_file >>] ]

\* '<t>_<source>_current.shp'
IsSourceCurrentName(s_file) ==
    Len(TokensOf(s_file)) = 3 /\ TokensOf(s_file)[3] = s_current

\* '<t>_current.shp'
IsCurrentName(s_file) ==
    Len(TokensOf(s_file)) = 2 /\ TokensOf(s_file)[2] = s_current

\* '<t>_<source>_<scenario>_y<year>.shp'
IsFullName(s_file) ==
    /\ Len(TokensOf(s_file)) = 4
    /\ TokensOf(s_file)[4] # << >>
    /\ Head(TokensOf(s_file)[4]) = "y"

\* the row the claim gives for a layer name of one of the forms above
RowAsNamed(species, s_file) ==
    LET t == TokensOf(s_file)
    IN  IF IsFullName(s_file)
        THEN HasRow(species, s_file, t[1], t[2], t[3], Tail(t[4]))
        ELSE IF IsSourceCurrentName(s_file)
        THEN HasRow(species, s_file, t[1], t[2], s_current, s_2020)
        ELSE HasRow(species, s_file, t[1], s_vtech, s_current, s_2020)

\* C1 as stated: for a species whose layers are all named
\* '<t>_<source>_current.shp' or '<t>_<source>_<scenario>_y<year>.shp', the
\* helper ends without an error and every layer with features gets the row
\* (t, source, 'current', '2020'), respectively (t, source, scenario, year).
C1_AsStated ==
    \A s \in Slugs :
        ( /\ Loaded(s)
          /\ LayersOf(s) # {}
          /\ \A f \in LayersOf(s) : IsSourceCurrentName(f) \/ IsFullName(f) )
        => /\ result[s].status = "rows"
           /\ \A f \in LayersOf(s) :
                shapeFiles[<< s, f >>] # {} => RowAsNamed(s, f)

\* C1 amended: for a species whose layers are all named '<t>_current.shp' or
\* '<t>_<source>_<scenario>_y<year>.shp' with a source other than 'current',
\* the helper ends without an error and every layer with features gets the
\* row (t, 'vtech', 'current', '2020'), respectively (t, source, scenario,
\* year without its leading character).
C1_FilenameParsing ==
    \A s \in Slugs :
        ( /\ Loaded(s)
          /\ LayersOf(s) # {}
          /\ \A f \in LayersOf(s) :
                \/ IsCurrentName(f)
                \/ IsFullName(f) /\ TokensOf(f)[2] # s_current )
        => /\ result[s].status = "rows"
           /\ \A f \in LayersOf(s) :
                shapeFiles[<< s, f >>] # {} => RowAsNamed(s, f)

n_50_cmip_shp ==
    << "5", "0", "_", "c", "m", "i", "p", "_", "r", "c", "p", "4", "5", "_",
       "y", "2", "0", "7", "0" >> \o dot_shp

n_25_current_shp == << "2", "5", "_" >> \o s_current \o dot_shp

\* a species was loaded whose layers have the two forms, among them
\* '25_current.shp' and '50_cmip_rcp45_y2070.shp', each with its row
C1_Witness ==
    \E s \in Slugs :
        /\ result[s].status = "rows"
        /\ \A f \in LayersOf(s) :
              IsCurrentName(f) \/ (IsFullName(f) /\ TokensOf(f)[2] # s_current)
        /\ { n_25_current_shp, n_50_cmip_shp } \subseteq LayersOf(s)
        /\ HasRow(s, n_25_current_shp, << "2", "5" >>, s_vtech, s_current, s_2020)
        /\ HasRow(s, n_50_cmip_shp, << "5", "0" >>, << "c", "m", "i", "p" >>,
                  << "r", "c", "p", "4", "5" >>, << "2", "0", "7", "0" >>)

\* the tokens the rule reads exist
HasRuleTokens(s_file) ==
    LET t == TokensOf(s_file)
    IN  Len(t) >= 2 /\ (t[2] = s_current \/ Len(t) >= 4)

\* C2: for every layer name split on '_', threshold = token[0]; if token[1]
\* is 'current' the row is (threshold, 'vtech', 'current', '2020') whatever
\* tokens follow; otherwise it is (threshold, token[1], token[2], token[3]
\* without its first character) whatever tokens follow token[3].
C2_TokenRule ==
    \A s \in Slugs :
        ( /\ Loaded(s)
          /\ LayersOf(s) # {}
          /\ \A f \in LayersOf(s) : HasRuleTokens(f) )
        => /\ result[s].status = "rows"
           /\ \A f \in LayersOf(s) :
                LET t == TokensOf(f)
                IN  shapeFiles[<< s, f >>] # {} =>
                      IF t[2] = s_current
                      THEN HasRow(s, f, t[1], s_vtech, s_current, s_2020)
                      ELSE HasRow(s, f, t[1], t[2], t[3], DropFirst(t[4]))

\* a species was loaded that has a 'current' layer with tokens after
\* 'current' and a layer with tokens after token[3], both with features
C2_Witness ==
    \E s \in Slugs :
        /\ result[s].status = "rows"
        /\ \E f \in LayersOf(s) :
              /\ TokensOf(f)[2] = s_current
              /\ Len(TokensOf(f)) > 2
              /\ shapeFiles[<< s, f >>] # {}
              /\ HasRow(s, f, TokensOf(f)[1], s_vtech, s_current, s_2020)
        /\ \E s2 \in Slugs :
              /\ result[s2].status = "rows"
              /\ \E f \in LayersOf(s2) :
                    /\ TokensOf(f)[2] # s_current
                    /\ Len(TokensOf(f)) > 4
                    /\ shapeFiles[<< s2, f >>] # {}
                    /\ HasRow(s2, f, TokensOf(f)[1], TokensOf(f)[2], TokensOf(f)[3],
                              Tail(TokensOf(f)[4]))

\* the task of the species in the given stage takes its step
TaskStep(stage, species) ==
    pc = stage /\ task[species] = "pending" /\ task'[species] # "pending"

\* C3: a polygonization task of a species whose polygonization already
\* ended without error skips every unit and creates nothing: the polygon
\* layers and the raster files of the species are the same after it.
C3_RestartCreatesNothing ==
    [][ \A s \in Slugs :
          (TaskStep("shape", s) /\ s \in shapeDone)
          => /\ NamesIn(shapeFiles', s) = NamesIn(shapeFiles, s)
             /\ NamesIn(tifFiles', s) = NamesIn(tifFiles, s) ]_vars

\* the log entries of a skipped archive of the species
BadZipEntry(species, scenario) == LogEntry("bad zip file", species, scenario.name)

\* C4: a fetch task logs exactly one skip for each malformed archive and
\* none for the others, and every scenario that is not unavailable, before
\* or after a malformed one, has its archive saved and its entries
\* extracted when the task ends.
C4_ExtractionIsolation ==
    [][ \A s \in Slugs :
          TaskStep("extract", s)
          => \A i \in 1..Len(pages[s]) :
               LET scn == pages[s][i]
               IN  /\ CopiesIn(BadZipEntry(s, scn), log')
                        = CopiesIn(BadZipEntry(s, scn), log)
                          + (IF scn.kind = "bad" THEN 1 ELSE 0)
                   /\ scn.kind # "unavailable"
                        => /\ << s, scn.name >> \in zipFiles'
                           /\ \A k \in 1..Len(scn.entries) :
                                /\ EntryPath(s, scn.entries[k].name) \in DOMAIN asciiFiles'
                                /\ asciiFiles'[EntryPath(s, scn.entries[k].name)]
                                     = scn.entries[k].data ]_vars

\* the fetch task of a species with a malformed archive between two
\* well-formed ones has ended: one skip is logged, the archive listed after
\* the malformed one is saved and its grid extracted
C4_Witness ==
    \E s \in Slugs :
        /\ pc = "extract"
        /\ run = 1
        /\ task[s] \in { "ok", "error" }
        /\ pages[s] = PageMixed
        /\ CopiesIn(BadZipEntry(s, PageMixed[2]), log) = 1
        /\ << s, "current" >> \in zipFiles
        /\ << s, "rcp85" >> \in zipFiles
        /\ << s, n_cmip_txt >> \in DOMAIN asciiFiles

\* C5: once the fetch task of a species has ended, it has ended without an
\* error and the species' zip staging directory and the archives saved in
\* it no longer exist.
C5_StagingRemoved ==
    \A s \in Slugs :
        (pc = "extract" /\ task[s] \in { "ok", "error" })
        => /\ task[s] = "ok"
           /\ << "zipfiles", s >> \notin dirs
           /\ ~ \E z \in zipFiles : z[1] = s

\* the rows of a sequence
RowsOf(rows) == { rows[i] : i \in 1..Len(rows) }

\* C6: when a task of the polygonization or aggregation stage has ended
\* with an error in this run, the run still ends with the destination
\* table written, holding the rows of every other species.
C6_SpeciesFailureIsolated ==
    ( /\ pc \in { "done", "aborted" }
      /\ \E f \in failed : f[1] = run /\ f[2] \in { "shape", "load" } )
    => /\ pc = "done"
       /\ written >= 1
       /\ \A s \in Slugs :
            (InList(s) /\ task[s] = "ok") => RowsOf(result[s].rows) \subseteq RowsOf(table)

\* what a stage run on a thread pool writes to the log
StageMessages(stage) ==
    CASE stage = "folders" -> { "folder already exists" }
      [] stage = "extract" -> { "image not available", "bad zip file" }
      [] stage = "ascii"   -> { "ascii file already exists" }
      [] OTHER             -> {}

\* C7: when the run is complete, every task of the directory-setup, fetch,
\* grid-normalization or raster-conversion stage that ended with an error
\* in it has an entry of its species and stage in the log.
C7_EverySkipLogged ==
    pc = "done"
    => \A f \in failed :
         (f[1] = run /\ f[2] \in ThreadStages)
         => \E e \in BagToSet(log) : e.species = f[3] /\ e.msg \in StageMessages(f[2])

\* C8: when the catalog resource is unreachable or answers with a status
\* other than success, the run is aborted in setup, and in a first run no
\* directory exists, no archive is saved and the table is not written.
C8_CatalogFailureFatal ==
    (catalog # NoResponse /\ (~catalog.reachable \/ catalog.status # 200))
    => /\ pc = "aborted"
       /\ run = 1 => (dirs = {} /\ zipFiles = {} /\ written = 0)

\* C9: when a row of the fetched catalog has fewer or more than 4 fields
\* the run is aborted, and a species list is returned only when every row
\* has exactly 4 fields.
C9_RowArity ==
    (catalog # NoResponse /\ catalog.reachable)
    => /\ (\E i \in 1..Len(catalog.rows) : Len(catalog.rows[i]) # 4) => pc = "aborted"
       /\ pc = "folders" => \A i \in 1..Len(catalog.rows) : Len(catalog.rows[i]) = 4

\* C10: a raster conversion task leaves every raster that exists when it
\* starts as it is: a grid whose target raster exists is not converted again.
C10_SkipIfTargetExists ==
    [][ \A s \in Slugs :
          TaskStep("tif", s)
          => \A p \in DOMAIN tifFiles :
               p[1] = s => (p \in DOMAIN tifFiles' /\ tifFiles'[p] = tifFiles[p]) ]_vars

\* C11: once the raster conversion task of a species has ended, every file
\* of the species' grid folder that holds a grid has its raster, whether or
\* not the conversion of another file of the folder failed.
C11_SiblingIsolation ==
    \A s \in Slugs :
        (pc = "tif" /\ task[s] \in { "ok", "error" })
        => \A n \in NamesIn(asciiFiles, s) :
             asciiFiles[<< s, n >>] # Junk
             => << s, ReSub(s_asc, s_tif, n) >> \in DOMAIN tifFiles

\* the file system as the step leaves it
DiskAfter ==
    [ dirs |-> dirs', zips |-> zipFiles', ascii |-> asciiFiles', tif |-> tifFiles',
      shapes |-> shapeFiles', log |-> log', err |-> FALSE ]

\* C12: a grid normalization task ends without an error and leaves, for
\* every file of the species' grid folder, the file of its normalized name
\* and no other, every name ending in 'asc'; the helper applied once more to
\* what it left raises nothing and leaves the same files.
C12_NormalizationIdempotent ==
    [][ \A s \in Slugs :
          TaskStep("ascii", s)
          => LET again == ConvertToASCII(DiskAfter, s, env.posix)
             IN  /\ task'[s] = "ok"
                 /\ NamesIn(asciiFiles', s)
                      = { ReSub(s_txt, s_asc, n) : n \in NamesIn(asciiFiles, s) }
                 /\ \A n \in NamesIn(asciiFiles', s) : EndsWith(n, s_asc)
                 /\ ~again.err
                 /\ again.ascii = asciiFiles' ]_vars

\* the key of a row of the table
KeyOf(row) == << row.species, row.threshold, row.source, row.scenario, row.year >>

\* C13: no two rows of the destination table have the same species,
\* threshold, source, scenario and year.
C13_KeyUnique ==
    \A i, j \in 1..Len(table) : i # j => KeyOf(table[i]) # KeyOf(table[j])

\* C14: when the aggregation of a run has ended in which no helper raised
\* and some species had no polygon layer, the run is complete, every such
\* species has its skip in the log, and the destination table holds the rows
\* of the species that have layers -- also when no species has any.
C14_EmptySpeciesSkipped ==
    ( /\ pc \in { "done", "aborted" }
      /\ \A s \in Slugs : InList(s) => result[s].status \in { "rows", "none" }
      /\ \E s \in Slugs : InList(s) /\ result[s].status = "none" )
    => /\ pc = "done"
       /\ \A s \in Slugs :
            (InList(s) /\ result[s].status = "none")
            => CopiesIn(LogEntry("no shape files", s, "shapes"), log) >= 1
       /\ RowsOf(table) = UNION { RowsOf(result[s].rows) : s \in { x \in Slugs : InList(x) } }

\* the name of the polygon layer of a raster and a threshold
LayerOf(threshold, tif_raster) ==
    IntToStr(threshold) \o us \o DropLast(tif_raster, 4) \o dot_shp

\* the cells the features of a layer cover
CellsOf(species, s_file) == UNION shapeFiles[<< species, s_file >>]

\* the rasters of a species that have a layer for the threshold
WithLayer(species, threshold) ==
    { n \in NamesIn(tifFiles, species) :
        EndsWith(n, dot_tif) /\ LayerOf(threshold, n) \in LayersOf(species) }

\* C15: the polygon layer of a raster and a threshold covers exactly the
\* cells of the raster whose value is at least the threshold, and the layer
\* of a lower threshold covers the cells of the layer of a higher one.
C15_ThresholdNesting ==
    \A p \in DOMAIN tifFiles :
      \A u \in 1..Len(cut_off_thresholds) :
        LET s == p[1]
            n == p[2]
            data == tifFiles[p].data
            t == cut_off_thresholds[u]
        IN  (EndsWith(n, dot_tif) /\ << s, LayerOf(t, n) >> \in DOMAIN shapeFiles)
            => /\ CellsOf(s, LayerOf(t, n))
                    = { i \in 1..Len(data) : data[i] # NoData /\ data[i] >= t }
               /\ \A v \in 1..Len(cut_off_thresholds) :
                    LET lower == cut_off_thresholds[v]
                    IN  (lower < t /\ << s, LayerOf(lower, n) >> \in DOMAIN shapeFiles)
                        => CellsOf(s, LayerOf(t, n)) \subseteq CellsOf(s, LayerOf(lower, n))

\* a raster with cells at the three thresholds has its three layers, each
\* strictly inside the layer of the next lower threshold
C15_Witness ==
    \E s \in Slugs :
      \E n \in WithLayer(s, 25) \cap WithLayer(s, 50) \cap WithLayer(s, 75) :
        /\ tifFiles[<< s, n >>].data = GridD
        /\ CellsOf(s, LayerOf(75, n)) # {}
        /\ CellsOf(s, LayerOf(75, n)) # CellsOf(s, LayerOf(50, n))
        /\ CellsOf(s, LayerOf(50, n)) # CellsOf(s, LayerOf(25, n))

\* the paths of a file tree that a step created or wrote
Written(old, new) == { p \in DOMAIN new : p \notin DOMAIN old \/ new[p] # old[p] }

\* the stages whose tasks run side by side
ParallelStages == { "folders", "extract", "ascii", "tif", "shape" }

\* C16: every file and directory that a task of a species creates or
\* writes, in any stage whose tasks run in parallel, lies in the folder of
\* that species of its category tree.
C16_SpeciesPartitioned ==
    [][ \A s \in Slugs :
          (pc \in ParallelStages /\ TaskStep(pc, s))
          => /\ \A p \in Written(asciiFiles, asciiFiles') \cup Written(tifFiles, tifFiles')
                       \cup Written(shapeFiles, shapeFiles') :
                  Len(p) >= 2 /\ p[1] = s
             /\ \A z \in zipFiles' \ zipFiles : z[1] = s
             /\ \A d \in dirs' \ dirs : d[2] = s ]_vars

\* the directories of a species
DirsOf(dd, species) == { d \in dd : d[2] = species }

\* C17: a directory setup task of a species ends without an error, whatever
\* directories exist when it starts; it leaves the four directories tif,
\* shapes, zipfiles and ascii of the species and changes nothing else.
C17_SetupIdempotent ==
    [][ \A s \in Slugs :
          TaskStep("folders", s)
          => /\ task'[s] = "ok"
             /\ DirsOf(dirs', s) = { << c, s >> : c \in { "tif", "shapes", "zipfiles", "ascii" } }
             /\ dirs' = dirs \cup DirsOf(dirs', s) ]_vars

\* in a second run the setup task of a species has ended without error: its
\* tif directory existed (logged once), its zipfiles directory did not
\* (never logged) and was created again
C17_Witness ==
    \E s \in Slugs :
        /\ run = 2
        /\ pc = "folders"
        /\ task[s] = "ok"
        /\ CopiesIn(LogEntry("folder already exists", s, "tif"), log) = 1
        /\ CopiesIn(LogEntry("folder already exists", s, "zipfiles"), log) = 0
        /\ DirsOf(dirs, s) = { << c, s >> : c \in { "tif", "shapes", "zipfiles", "ascii" } }

\* the order of the stages of a run, as the claim gives it
StageOrder == << "folders", "extract", "ascii", "tif", "shape", "load" >>

\* C18: a run leaves a stage only when no task of the stage is pending, and
\* then for the next stage of the order directory setup, fetch, grid
\* normalization, raster conversion, polygonization, aggregation (or it
\* ends); the destination table is written only by the one step that
\* completes the run, after every aggregation task has ended, and that step
\* writes it once.
C18_StageBarrier ==
    [][ /\ \A k \in 1..Len(StageOrder) :
             (pc = StageOrder[k] /\ pc' # pc)
             => /\ \A s \in Slugs : task[s] # "pending"
                /\ \A s \in Slugs : InList(s) => task[s] \in { "ok", "error" }
                /\ pc' \in { "aborted", IF k < Len(StageOrder) THEN StageOrder[k + 1] ELSE "done" }
        /\ (written' # written \/ table' # table \/ (pc' = "done" /\ pc # "done"))
             => /\ pc = "load" /\ pc' = "done"
                /\ written' = written + 1
                /\ \A s \in Slugs : InList(s) => Loaded(s) ]_vars

\* a first run is complete: both species went through the six stages and
\* the table was written once
C18_Witness ==
    /\ run = 1
    /\ pc = "done"
    /\ written = 1
    /\ \A s \in Slugs : InList(s) /\ task[s] = "ok" /\ Loaded(s)

\* the layers of a species that have features
FilledLayersOf(species) ==
    { f \in LayersOf(species) : shapeFiles[<< species, f >>] # {} }

\* the species of the list
Listed == { s \in Slugs : InList(s) }

\* a row of the species' result has the threshold and the cells of the layer
HasLayerRow(species, s_file) ==
    \E i \in 1..Len(result[species].rows) :
        /\ result[species].rows[i].threshold = TokensOf(s_file)[1]
        /\ result[species].rows[i].geometry = CellsOf(species, s_file)

\* C19 as stated: every layer with features has its row in the result of
\* its species, and the table of a complete run has as many rows as the
\* listed species have polygon layer files.
C19_AsStated ==
    /\ \A s \in Slugs :
         result[s].status = "rows" => \A f \in FilledLayersOf(s) : HasLayerRow(s, f)
    /\ pc = "done"
         => Len(table) = Cardinality({ p \in DOMAIN shapeFiles :
                                         p[1] \in Listed /\ EndsWith(p[2], dot_shp) })

\* C19 amended: every layer with features has its row in the result of its
\* species, the result has as many rows as the species has layers with
\* features, and the table of a complete run has as many rows as the listed
\* species have layers with features; a layer without features gives no row.
C19_OneRowPerLayer ==
    /\ \A s \in Slugs :
         result[s].status = "rows"
         => /\ \A f \in FilledLayersOf(s) : HasLayerRow(s, f)
            /\ Len(result[s].rows) = Cardinality(FilledLayersOf(s))
    /\ pc = "done"
         => Len(table) = Cardinality({ p \in DOMAIN shapeFiles :
                                         /\ p[1] \in Listed
                                         /\ EndsWith(p[2], dot_shp)
                                         /\ shapeFiles[p] # {} })

\* a run is complete with a species that has a layer of two features and a
\* layer without features
C19_Witness ==
    /\ pc = "done"
    /\ \E s \in Slugs :
         /\ result[s].status = "rows"
         /\ \E f, g \in LayersOf(s) :
              /\ Cardinality(shapeFiles[<< s, f >>]) >= 2
              /\ shapeFiles[<< s, g >>] = {}

\* the name of an archive entry without its folders
BaseName(name) == Split(name, "/")[Len(Split(name, "/"))]

\* C20: once the raster conversion task of a species has ended without an
\* error, every grid of every well-formed archive of the species lies in the
\* grid folder of the species under its normalized name and has its raster.
C20_NoGridLost ==
    \A s \in Slugs :
        (pc = "tif" /\ task[s] = "ok")
        => \A i \in 1..Len(pages[s]) :
             pages[s][i].kind = "ok"
             => \A k \in 1..Len(pages[s][i].entries) :
                  LET e == pages[s][i].entries[k]
                      a_file == ReSub(s_txt, s_asc, BaseName(e.name))
                      t_file == ReSub(s_asc, s_tif, a_file)
                  IN  e.data # Junk
                      => /\ << s, a_file >> \in DOMAIN asciiFiles
                         /\ << s, t_file >> \in DOMAIN tifFiles
                         /\ tifFiles[<< s, t_file >>].data = e.data

====
